---- MODULE Spec2Model ----
(***************************************************************************)
(* Model of push.py, the deploy helper of jacko.io.                        *)
(*                                                                         *)
(* main() changes into the script's directory, reads `git status           *)
(* --porcelain`, refuses to go on when the tree is dirty, runs `git push   *)
(* origin master` and then one ssh command on jacko@jacko.io.  Every       *)
(* external command is a blocking duct expression: .read() and .run()      *)
(* wait for the child and raise StatusError when it exits nonzero.  An     *)
(* exception that leaves main() uncaught ends the interpreter with exit    *)
(* status 1 and a traceback on stderr; a main() that falls off its end     *)
(* returns None, which sys.exit() turns into exit status 0.                *)
(*                                                                         *)
(* Each run of the tool is an operating-system process of its own, so the  *)
(* model carries NumRuns independent runs whose only common resource is    *)
(* the remote host.                                                        *)
(***************************************************************************)
EXTENDS Integers, Sequences, FiniteSets, TLC

VARIABLES pc, cwd, chdirs, status, unpushed, stdout, stderr, exitCode, log,
          remoteSessions

vars == <<pc, cwd, chdirs, status, unpushed, stdout, stderr, exitCode, log,
          remoteSessions>>

(* ---------------------------- bounds ----------------------------------- *)

\* number of runs of the tool started side by side
NumRuns == 2

\* longest captured stdout of a child, in characters
MaxLen == 4

(* --------------------------- constants --------------------------------- *)

Runs == 1 .. NumRuns

NL == "\n"

\* exit statuses a child can end with: success, a generic failure, git's
\* fatal status and ssh's connection failure status
ExitCodes == {0, 1, 128, 255}

\* exitCode of a run that has not exited yet
NotExited == -1

\* the directory of push.py and some other directory the tool is started in
Here == "here"

Dirs == {"here", "elsewhere"}

Diagnostic == "repo isn't clean"

DiagnosticUnpushed == "unpushed commits"

Traceback == "StatusError"

(* ------------------------ captured output ------------------------------ *)

Alphabet == {"M", NL}

Texts(n) == UNION { [1 .. k -> Alphabet] : k \in 0 .. n }

\* a text of complete records: empty, or non-empty lines each ended by a
\* newline, which is how git prints its porcelain status (and a one-line log)
IsLines(t) ==
    \/ Len(t) = 0
    \/ /\ t[1] # NL
       /\ t[Len(t)] = NL
       /\ \A i \in 1 .. Len(t) - 1 : ~(t[i] = NL /\ t[i + 1] = NL)

\* what `git status --porcelain` can write to its stdout
StatusOutputs == { t \in Texts(MaxLen) : IsLines(t) }

RECURSIVE RStripNewlines(_)
\* str.rstrip('\n')
RStripNewlines(s) ==
    IF Len(s) > 0 /\ s[Len(s)] = NL
    THEN RStripNewlines(SubSeq(s, 1, Len(s) - 1))
    ELSE s

\* Expression.read(): the captured stdout without its trailing newlines
Read(out) == RStripNewlines(out)

\* `if not status:` in place of `if status:`
Falsy(s) == Len(s) = 0

\* truth value of a Python str
Truthy(s) == Len(s) > 0

(* ------------------------ interpreter exit ----------------------------- *)

\* return values of main(): None, or an int
PyNone == <<>>

PyInt(n) == <<n>>

\* sys.exit(arg): None is exit status 0, an int is that exit status
SysExit(v) == IF v = PyNone THEN 0 ELSE v[1]

\* exit status of the interpreter when an exception leaves main() uncaught
UncaughtExit == 1

\* an expression run with .unchecked(): no exit status raises
NeverStatusError(rc) == FALSE

\* duct raises StatusError from .run() and .read() when the child's exit
\* status is not zero
StatusError(rc) == rc # 0

(* --------------------------- state ------------------------------------- *)

Event(ev, cmd, rc, out) == [ev |-> ev, cmd |-> cmd, rc |-> rc, out |-> out]

Init ==
    /\ pc = [p \in Runs |-> "main"]
    /\ cwd \in [Runs -> Dirs]
    /\ chdirs = [p \in Runs |-> 0]
    /\ status = [p \in Runs |-> <<>>]
    /\ unpushed = [p \in Runs |-> <<>>]
    /\ stdout = [p \in Runs |-> <<>>]
    /\ stderr = [p \in Runs |-> <<>>]
    /\ exitCode = [p \in Runs |-> NotExited]
    /\ log = [p \in Runs |-> <<>>]
    /\ remoteSessions = {}

\* the child of a duct expression is spawned; the run blocks until it ends
Spawn(p, at, cmd) ==
    /\ pc[p] = at
    /\ pc' = [pc EXCEPT ![p] = cmd \o "_wait"]
    /\ log' = [log EXCEPT ![p] = Append(@, Event("start", cmd, 0, <<>>))]

\* the child has ended with exit status rc and stdout out
Reap(p, cmd, rc, out) ==
    /\ pc[p] = cmd \o "_wait"
    /\ log' = [log EXCEPT ![p] = Append(@, Event("end", cmd, rc, out))]

\* StatusError leaves main() uncaught: traceback on stderr, exit status 1
Raise(p) ==
    /\ stderr' = [stderr EXCEPT ![p] = Append(@, Traceback)]
    /\ exitCode' = [exitCode EXCEPT ![p] = UncaughtExit]
    /\ pc' = [pc EXCEPT ![p] = "exited"]

\* main() returns v and sys.exit(v) ends the process
Return(p, v) ==
    /\ exitCode' = [exitCode EXCEPT ![p] = SysExit(v)]
    /\ pc' = [pc EXCEPT ![p] = "exited"]

(* --------------------------- main() ------------------------------------ *)

\* main() without its os.chdir
Chdir_Skip(p) ==
    /\ pc[p] = "main"
    /\ pc' = [pc EXCEPT ![p] = "status"]
    /\ UNCHANGED <<cwd, chdirs, status, unpushed, stdout, stderr, exitCode,
                   log, remoteSessions>>

\* os.chdir(str(here))
Chdir(p) ==
    /\ pc[p] = "main"
    /\ cwd' = [cwd EXCEPT ![p] = Here]
    /\ chdirs' = [chdirs EXCEPT ![p] = @ + 1]
    /\ pc' = [pc EXCEPT ![p] = "status"]
    /\ UNCHANGED <<status, unpushed, stdout, stderr, exitCode, log,
                   remoteSessions>>

\* cmd("git", "status", "--porcelain").read(), the child is started
StartStatus(p) ==
    /\ Spawn(p, "status", "status")
    /\ UNCHANGED <<cwd, chdirs, status, unpushed, stdout, stderr, exitCode,
                   remoteSessions>>

\* the status child ends; read() returns or raises; `if status:` is decided
\* and the run either leaves with 1 or goes on to `next`
EndStatusTo(p, next) ==
    \E rc \in ExitCodes, out \in StatusOutputs :
        /\ Reap(p, "status", rc, out)
        /\ IF StatusError(rc)
           THEN /\ Raise(p)
                /\ UNCHANGED <<status, stdout>>
           ELSE /\ status' = [status EXCEPT ![p] = Read(out)]
                /\ IF Truthy(Read(out))
                   THEN /\ stdout' = [stdout EXCEPT ![p] = Append(@, Diagnostic)]
                        /\ Return(p, PyInt(1))
                        /\ UNCHANGED stderr
                   ELSE /\ pc' = [pc EXCEPT ![p] = next]
                        /\ UNCHANGED <<stdout, stderr, exitCode>>
        /\ UNCHANGED <<cwd, chdirs, unpushed, remoteSessions>>

\* main() with the ssh command right after the status check
EndStatus_SkipPush(p) == EndStatusTo(p, "ssh")

\* main() with the status read through .unchecked()
EndStatus_Unchecked(p) ==
    \E rc \in ExitCodes, out \in StatusOutputs :
        /\ Reap(p, "status", rc, out)
        /\ status' = [status EXCEPT ![p] = Read(out)]
        /\ IF Truthy(Read(out))
           THEN /\ stdout' = [stdout EXCEPT ![p] = Append(@, Diagnostic)]
                /\ Return(p, PyInt(1))
                /\ UNCHANGED stderr
           ELSE /\ pc' = [pc EXCEPT ![p] = "push"]
                /\ UNCHANGED <<stdout, stderr, exitCode>>
        /\ UNCHANGED <<cwd, chdirs, unpushed, remoteSessions>>

\* lines 21-24 of main()
EndStatus(p) == EndStatusTo(p, "push")

\* cmd("git", "push", "origin", "master").start(): main() does not wait
StartPush_Background(p) ==
    /\ pc[p] = "push"
    /\ pc' = [pc EXCEPT ![p] = "ssh"]
    /\ log' = [log EXCEPT ![p] = Append(@, Event("start", "push", 0, <<>>))]
    /\ UNCHANGED <<cwd, chdirs, status, unpushed, stdout, stderr, exitCode,
                   remoteSessions>>

\* cmd("git", "push", "origin", "master").run(), the child is started
StartPush(p) ==
    /\ Spawn(p, "push", "push")
    /\ UNCHANGED <<cwd, chdirs, status, unpushed, stdout, stderr, exitCode,
                   remoteSessions>>

\* the push run through .unchecked(): main() goes on whatever the status
EndPush_Unchecked(p) ==
    \E rc \in ExitCodes :
        /\ Reap(p, "push", rc, <<>>)
        /\ pc' = [pc EXCEPT ![p] = "ssh"]
        /\ UNCHANGED <<cwd, chdirs, status, unpushed, stdout, stderr,
                       exitCode, remoteSessions>>

\* the push child ends; run() returns or raises
EndPush(p) ==
    \E rc \in ExitCodes :
        /\ Reap(p, "push", rc, <<>>)
        /\ IF StatusError(rc)
           THEN Raise(p)
           ELSE /\ pc' = [pc EXCEPT ![p] = "ssh"]
                /\ UNCHANGED <<stderr, exitCode>>
        /\ UNCHANGED <<cwd, chdirs, status, unpushed, stdout, remoteSessions>>

\* the ssh command started only while no other session is on the host
StartSsh_Locked(p) ==
    /\ remoteSessions = {}
    /\ Spawn(p, "ssh", "ssh")
    /\ remoteSessions' = remoteSessions \cup {p}
    /\ UNCHANGED <<cwd, chdirs, status, unpushed, stdout, stderr, exitCode>>

\* cmd("ssh", "jacko@jacko.io", ...).run(), the child is started and the
\* remote command line runs on the host
StartSsh(p) ==
    /\ Spawn(p, "ssh", "ssh")
    /\ remoteSessions' = remoteSessions \cup {p}
    /\ UNCHANGED <<cwd, chdirs, status, unpushed, stdout, stderr, exitCode>>

\* the ssh command run again after it failed
EndSsh_Retry(p) ==
    \E rc \in ExitCodes :
        /\ Reap(p, "ssh", rc, <<>>)
        /\ remoteSessions' = remoteSessions \ {p}
        /\ IF StatusError(rc)
           THEN /\ pc' = [pc EXCEPT ![p] = "ssh"]
                /\ UNCHANGED <<stderr, exitCode>>
           ELSE /\ Return(p, PyNone)
                /\ UNCHANGED stderr
        /\ UNCHANGED <<cwd, chdirs, status, unpushed, stdout>>

\* the ssh child ends; run() raises, or returns and main() falls off its
\* end, returning None to sys.exit
EndSsh(p) ==
    \E rc \in ExitCodes :
        /\ Reap(p, "ssh", rc, <<>>)
        /\ remoteSessions' = remoteSessions \ {p}
        /\ IF StatusError(rc)
           THEN Raise(p)
           ELSE /\ Return(p, PyNone)
                /\ UNCHANGED stderr
        /\ UNCHANGED <<cwd, chdirs, status, unpushed, stdout>>

(* ------------------- the stricter variant ------------------------------ *)
(* The stricter variant replaces the push by two more checks before the    *)
(* remote command: a fetch, and a query of the range origin/master..HEAD.  *)

\* what the range query can write to its stdout
LogOutputs == StatusOutputs

\* working-tree check of the stricter variant: a clean tree goes on to the
\* fetch
EndStatusC(p) == EndStatusTo(p, "fetch")

\* fetch the latest remote refs, the child is started
StartFetchC(p) ==
    /\ Spawn(p, "fetch", "fetch")
    /\ UNCHANGED <<cwd, chdirs, status, unpushed, stdout, stderr, exitCode,
                   remoteSessions>>

\* the fetch child ends; no output is captured, a failure propagates
EndFetchC(p) ==
    \E rc \in ExitCodes :
        /\ Reap(p, "fetch", rc, <<>>)
        /\ IF StatusError(rc)
           THEN Raise(p)
           ELSE /\ pc' = [pc EXCEPT ![p] = "log"]
                /\ UNCHANGED <<stderr, exitCode>>
        /\ UNCHANGED <<cwd, chdirs, status, unpushed, stdout, remoteSessions>>

\* query the commits of origin/master..HEAD, the child is started
StartLogC(p) ==
    /\ Spawn(p, "log", "log")
    /\ UNCHANGED <<cwd, chdirs, status, unpushed, stdout, stderr, exitCode,
                   remoteSessions>>

\* the unpushed-commits check inverted
EndLogC_Inverted(p) ==
    \E rc \in ExitCodes, out \in LogOutputs :
        /\ Reap(p, "log", rc, out)
        /\ IF StatusError(rc)
           THEN /\ Raise(p)
                /\ UNCHANGED <<unpushed, stdout>>
           ELSE /\ unpushed' = [unpushed EXCEPT ![p] = Read(out)]
                /\ IF Falsy(Read(out))
                   THEN /\ stdout' = [stdout EXCEPT ![p] =
                                         Append(@, DiagnosticUnpushed)]
                        /\ Return(p, PyInt(1))
                        /\ UNCHANGED stderr
                   ELSE /\ pc' = [pc EXCEPT ![p] = "ssh"]
                        /\ UNCHANGED <<stdout, stderr, exitCode>>
        /\ UNCHANGED <<cwd, chdirs, status, remoteSessions>>

\* the range query ends; unpushed commits give the diagnostic and exit 1
\* with no contact with the host, none lets the run go on to the remote
\* command
EndLogC(p) ==
    \E rc \in ExitCodes, out \in LogOutputs :
        /\ Reap(p, "log", rc, out)
        /\ IF StatusError(rc)
           THEN /\ Raise(p)
                /\ UNCHANGED <<unpushed, stdout>>
           ELSE /\ unpushed' = [unpushed EXCEPT ![p] = Read(out)]
                /\ IF Truthy(Read(out))
                   THEN /\ stdout' = [stdout EXCEPT ![p] =
                                         Append(@, DiagnosticUnpushed)]
                        /\ Return(p, PyInt(1))
                        /\ UNCHANGED stderr
                   ELSE /\ pc' = [pc EXCEPT ![p] = "ssh"]
                        /\ UNCHANGED <<stdout, stderr, exitCode>>
        /\ UNCHANGED <<cwd, chdirs, status, remoteSessions>>

Next ==
    \E p \in Runs :
        \/ Chdir(p)
        \/ StartStatus(p)
        \/ EndStatus(p)
        \/ StartPush(p)
        \/ EndPush(p)
        \/ StartSsh(p)
        \/ EndSsh(p)

Spec == Init /\ [][Next]_vars

NextC ==
    \E p \in Runs :
        \/ Chdir(p)
        \/ StartStatus(p)
        \/ EndStatusC(p)
        \/ StartFetchC(p)
        \/ EndFetchC(p)
        \/ StartLogC(p)
        \/ EndLogC(p)
        \/ StartSsh(p)
        \/ EndSsh(p)

SpecC == Init /\ [][NextC]_vars

(* ------------------------ reading the log ------------------------------ *)

Cmds == {"status", "push", "ssh", "fetch", "log"}

\* positions of the log of run p where cmd was started
StartsAt(p, cmd) ==
    { i \in DOMAIN log[p] : log[p][i].ev = "start" /\ log[p][i].cmd = cmd }

\* positions of the log of run p where cmd ended
EndsAt(p, cmd) ==
    { i \in DOMAIN log[p] : log[p][i].ev = "end" /\ log[p][i].cmd = cmd }

Starts(p, cmd) == Cardinality(StartsAt(p, cmd))

\* cmd has ended in run p with an exit status of the set rcs
Ended(p, cmd, rcs) == \E i \in EndsAt(p, cmd) : log[p][i].rc \in rcs

\* the commands of run p that are started and not ended
Active(p) ==
    { c \in Cmds : Cardinality(StartsAt(p, c)) > Cardinality(EndsAt(p, c)) }

Failures == ExitCodes \ {0}

\* the status query of run p succeeded and wrote something
StatusDirty(p) ==
    \E i \in EndsAt(p, "status") : log[p][i].rc = 0 /\ log[p][i].out # <<>>

\* the status query of run p succeeded and wrote nothing
StatusClean(p) ==
    \E i \in EndsAt(p, "status") : log[p][i].rc = 0 /\ log[p][i].out = <<>>

Exited(p) == pc[p] = "exited"

Printed(p, msg) == \E i \in DOMAIN stdout[p] : stdout[p][i] = msg

(* ----------------------------- claims --------------------------------- *)

\* C1: in every run whose status query succeeded with non-empty output the
\* tool has printed "repo isn't clean" and exited with 1, and neither the
\* push nor the ssh command was ever started.
C1_DirtyAborts ==
    \A p \in Runs :
        StatusDirty(p) =>
            /\ Exited(p)
            /\ exitCode[p] = 1
            /\ stdout[p] = <<Diagnostic>>
            /\ Starts(p, "push") = 0
            /\ Starts(p, "ssh") = 0
            /\ p \notin remoteSessions

C1_Witness ==
    \E p \in Runs :
        /\ StatusDirty(p)
        /\ Exited(p)
        /\ \E i \in EndsAt(p, "status") : Len(log[p][i].out) = MaxLen

\* C2: a run whose status output is empty goes on to the push and only then
\* to the ssh command: every start of the ssh command comes after a start
\* and a successful end of the push, and a run with a clean status does not
\* exit before the push was started.
C2_PushThenSsh ==
    \A p \in Runs :
        /\ \A i \in StartsAt(p, "ssh") :
               \E j \in StartsAt(p, "push"), k \in EndsAt(p, "push") :
                   j < k /\ k < i /\ log[p][k].rc = 0
        /\ StatusClean(p) =>
               \/ pc[p] = "push" /\ ~Exited(p)
               \/ Starts(p, "push") = 1
        /\ StatusClean(p) /\ Ended(p, "push", {0}) =>
               \/ pc[p] = "ssh" /\ ~Exited(p)
               \/ Starts(p, "ssh") = 1

C2_Witness ==
    \E p \in Runs :
        /\ StatusClean(p)
        /\ Ended(p, "push", {0})
        /\ pc[p] = "ssh_wait"

\* C3: once the push has exited nonzero the run has terminated with a
\* nonzero exit code and the ssh command was never started.
C3_PushFailureAborts ==
    \A p \in Runs :
        Ended(p, "push", Failures) =>
            /\ Starts(p, "ssh") = 0
            /\ p \notin remoteSessions
            /\ Exited(p)
            /\ exitCode[p] \notin {0, NotExited}

C3_Witness ==
    \E p \in Runs : Ended(p, "push", {255}) /\ Exited(p)

C5_ZeroIffAllSucceeded ==
    \A p \in Runs :
        /\ Exited(p) <=> exitCode[p] # NotExited
        /\ Exited(p) =>
               (exitCode[p] = 0 <=>
                    /\ StatusClean(p)
                    /\ Starts(p, "push") = 1 /\ Ended(p, "push", {0})
                    /\ Starts(p, "ssh") = 1 /\ Ended(p, "ssh", {0}))
        /\ StatusClean(p) /\ Ended(p, "push", {0}) /\ Ended(p, "ssh", {0}) =>
               exitCode[p] = 0

C5_Witness ==
    \E p, q \in Runs :
        /\ Exited(p) /\ exitCode[p] = 0
        /\ Exited(q) /\ exitCode[q] # 0

C7_UnpushedAborts ==
    \A p \in Runs :
        (\E i \in EndsAt(p, "log") : log[p][i].rc = 0 /\ log[p][i].out # <<>>)
            =>
            /\ Exited(p)
            /\ exitCode[p] = 1
            /\ Starts(p, "ssh") = 0
            /\ p \notin remoteSessions

C7_Witness ==
    \E p \in Runs :
        /\ Exited(p)
        /\ Printed(p, DiagnosticUnpushed)
        /\ \E i \in EndsAt(p, "log") : log[p][i].rc = 0 /\ log[p][i].out # <<>>

\* C8: within a run at most one external command is in progress, a command
\* starts only when everything started before it has ended, each command is
\* started at most once, and a run that has exited has no command in
\* progress.
C8_SequentialOneShot ==
    \A p \in Runs :
        /\ Cardinality(Active(p)) <= 1
        /\ \A c \in Cmds : Starts(p, c) <= 1
        /\ \A i \in DOMAIN log[p] :
               IF i % 2 = 1
               THEN log[p][i].ev = "start"
               ELSE log[p][i].ev = "end" /\ log[p][i].cmd = log[p][i - 1].cmd
        /\ Exited(p) => Active(p) = {}

C8_Witness ==
    \E p, q \in Runs :
        /\ Active(p) = {"ssh"} /\ Len(log[p]) = 5
        /\ Exited(q) /\ Ended(q, "push", Failures) /\ Len(log[q]) = 4

\* C9: the working directory is set to the script's directory once, before
\* any external command is started, and stays there for the rest of the run.
C9_ChdirOnceFirst ==
    \A p \in Runs :
        /\ chdirs[p] <= 1
        /\ pc[p] = "main" => chdirs[p] = 0 /\ log[p] = <<>>
        /\ pc[p] # "main" => chdirs[p] = 1 /\ cwd[p] = Here

C9_Witness ==
    \E p, q \in Runs :
        /\ p # q
        /\ pc[p] = "main" /\ cwd[p] # Here
        /\ Exited(q) /\ cwd[q] = Here /\ chdirs[q] = 1 /\ Len(log[q]) = 6

\* C10: nothing keeps two runs from the remote host at the same time: a run
\* that has reached the ssh command can start it whatever sessions the other
\* runs hold on the host.
C10_NoMutualExclusion ==
    \A p \in Runs : pc[p] = "ssh" => ENABLED StartSsh(p)

\* two runs execute the remote command on the host at the same time
C10_Witness ==
    \E p, q \in Runs :
        /\ p # q
        /\ {p, q} \subseteq remoteSessions
        /\ pc[p] = "ssh_wait" /\ pc[q] = "ssh_wait"

====
